---- MODULE Spec2Model ----
(***************************************************************************)
(* A model of the parser-combinator engine in src/lifted/__init__.py.      *)
(*                                                                         *)
(* A Python str is a sequence of one-character strings, so text[pos] of    *)
(* the source is text[pos + 1] here and text[a:b] is SubSeq(text, a+1, b). *)
(* A parser (a Python closure) is a record holding the closure's captured  *)
(* configuration under the name of the function that built it; call(p, s)  *)
(* is the Python call p(s).  The result of a call is Parsing(value, state),*)
(* None, or Raise(exc) when the call ends with an exception.               *)
(*                                                                         *)
(* The closure many.fn holds a loop that need not end, so it is modelled   *)
(* one loop iteration per step; every other parser ends and is modelled    *)
(* as an operator computed the way the source computes it.                 *)
(***************************************************************************)
EXTENDS Integers, Sequences, FiniteSets, TLC

\* Longest generated input text.
MaxLen == 3
\* Number of list items the process can hold before list.append raises
\* MemoryError; larger than every input text of the model.
MemLimit == 9

VARIABLES text, pc, callee, start, ret, parser, parse_separator, parse_state,
          prior_parse_state, results, parsing, run, first_ret

vars == <<text, pc, callee, start, ret, parser, parse_separator, parse_state,
          prior_parse_state, results, parsing, run, first_ret>>

----------------------------------------------------------------------------
\* Values

\* Python's None as a value.
NoneValue == [t |-> "None"]
\* A Python str.
Str(s) == [t |-> "str", s |-> s]
\* A Python list.
List(items) == [t |-> "list", items |-> items]
\* A Python int.
IntVal(n) == [t |-> "int", n |-> n]

\* namedtuple ParseState(text, pos)
ParseState(txt, pos) == [text |-> txt, pos |-> pos]
\* namedtuple Parsing(value, parse_state)
Parsing(value, state) == [tag |-> "Parsing", value |-> value, parse_state |-> state]
\* A call that returned None.
None == [tag |-> "None"]
\* A call that ended with the exception exc.
Raise(exc) == [tag |-> "raise", exc |-> exc]
\* A local variable that no statement has assigned yet.
Unbound == [tag |-> "unbound"]

\* str.isspace on one character.
IsSpace(ch) == ch \in {" ", "\t", "\n"}
\* str.isdigit on one character.
IsDigit(ch) == ch \in {"0", "1", "2", "3", "4", "5", "6", "7", "8", "9"}

\* A character predicate passed to take_while / until: the named function,
\* negated when until wrapped it in "lambda x: not match_char_fn(x)".
Pred(name) == [fn |-> name, negated |-> FALSE]
match_char(match_char_fn, ch) ==
    LET holds == CASE match_char_fn.fn = "isdigit" -> IsDigit(ch)
                   [] match_char_fn.fn = "isspace" -> IsSpace(ch)
                   [] match_char_fn.fn = "colon_or_space" -> ch = ":" \/ IsSpace(ch)
                   [] match_char_fn.fn = "is_a" -> ch = "a"
    IN  IF match_char_fn.negated THEN ~holds ELSE holds

----------------------------------------------------------------------------
\* Primitive parsers

RECURSIVE parse_string_loop(_, _, _, _)
\* The while loop of parse_string: the final value of pos.
parse_string_loop(txt, s, pos, i) ==
    IF i < Len(s) /\ txt[pos + 1] = s[i + 1]
    THEN parse_string_loop(txt, s, pos + 1, i + 1)
    ELSE pos

\* parse_string with its length guard missing: compares what is left of the
\* text with the start of s and advances by len(s).
parse_string_NoGuard(state, s) ==
    LET avail == IF state.pos + Len(s) > Len(state.text)
                 THEN Len(state.text) - state.pos ELSE Len(s)
    IN  IF SubSeq(state.text, state.pos + 1, state.pos + avail) = SubSeq(s, 1, avail)
        THEN Parsing(Str(s), ParseState(state.text, state.pos + Len(s)))
        ELSE None

parse_string(state, s) ==
    LET pos0 == state.pos
        len_input == Len(state.text)
    IN  IF pos0 + Len(s) > len_input
        THEN None
        ELSE LET pos == parse_string_loop(state.text, s, pos0, 0)
             IN  IF pos - state.pos = Len(s)
                 THEN Parsing(Str(SubSeq(state.text, state.pos + 1, pos)),
                              ParseState(state.text, pos))
                 ELSE None

end_of_input(state) ==
    IF Len(state.text) = state.pos THEN Parsing(NoneValue, state) ELSE None

RECURSIVE digits_loop(_, _)
\* The while loop of digits: the final value of pos.
digits_loop(txt, pos) ==
    IF pos < Len(txt) /\ IsDigit(txt[pos + 1]) THEN digits_loop(txt, pos + 1) ELSE pos

\* digits without its "pos != parse_state.pos" test.
digits_AllowEmpty(state) ==
    LET pos == digits_loop(state.text, state.pos)
    IN  Parsing(Str(SubSeq(state.text, state.pos + 1, pos)), ParseState(state.text, pos))

digits(state) ==
    LET pos == digits_loop(state.text, state.pos)
    IN  IF pos # state.pos
        THEN Parsing(Str(SubSeq(state.text, state.pos + 1, pos)),
                     ParseState(state.text, pos))
        ELSE None

RECURSIVE whitespace_loop(_, _)
\* The while loop of whitespace: the final value of pos.
whitespace_loop(txt, pos) ==
    IF pos < Len(txt) /\ IsSpace(txt[pos + 1]) THEN whitespace_loop(txt, pos + 1) ELSE pos

whitespace(state) ==
    LET pos == whitespace_loop(state.text, state.pos)
    IN  IF pos # state.pos
        THEN Parsing(Str(<<" ">>), ParseState(state.text, pos))
        ELSE None

char_fn(ch, state) ==
    IF state.pos < Len(state.text) /\ state.text[state.pos + 1] = ch
    THEN Parsing(Str(<<ch>>), ParseState(state.text, state.pos + 1))
    ELSE None

not_char_fn(ch, state) ==
    IF state.pos < Len(state.text) /\ state.text[state.pos + 1] # ch
    THEN Parsing(Str(<<state.text[state.pos + 1]>>),
                 ParseState(state.text, state.pos + 1))
    ELSE None

RECURSIVE take_while_loop(_, _, _)
\* The while loop of take_while.fn: the final value of pos.
take_while_loop(match_char_fn, txt, pos) ==
    IF pos < Len(txt) /\ match_char(match_char_fn, txt[pos + 1])
    THEN take_while_loop(match_char_fn, txt, pos + 1)
    ELSE pos

take_while_fn(match_char_fn, allow_empty, state) ==
    LET pos == take_while_loop(match_char_fn, state.text, state.pos)
    IN  IF pos # state.pos
        THEN Parsing(Str(SubSeq(state.text, state.pos + 1, pos)),
                     ParseState(state.text, pos))
        ELSE IF allow_empty
             THEN Parsing(NoneValue, ParseState(state.text, pos))
             ELSE None

----------------------------------------------------------------------------
\* Parser values: what each constructor's closure captures.

\* A module-level function used as a parser: digits, whitespace, end_of_input.
Function(name) == [k |-> name]
string(s) == [k |-> "string", s |-> s]
char(ch) == [k |-> "char", ch |-> ch]
not_char(ch) == [k |-> "not_char", ch |-> ch]
take_while(match_char_fn, allow_empty) ==
    [k |-> "take_while", match_char_fn |-> match_char_fn, allow_empty |-> allow_empty]
until(match_char_fn) ==
    take_while([fn |-> match_char_fn.fn, negated |-> ~match_char_fn.negated], FALSE)
whole(p) == [k |-> "whole", parser |-> p]
option(p, otherwise) == [k |-> "option", parser |-> p, otherwise |-> otherwise]
skip_space(p, fail_without_whitespace) ==
    [k |-> "skip_space", parser |-> p,
     fail_without_whitespace |-> fail_without_whitespace]
chomp_space(p) == skip_space(p, FALSE)
lift(fn, p) == [k |-> "lift", fn |-> fn, parser |-> p]
any_of(parsers) == [k |-> "any_of", parsers |-> parsers]
sequence(parsers) == [k |-> "sequence", parsers |-> parsers]
strings(args) == [k |-> "strings", args |-> args]
parse_until_colon_or_whitespace == until(Pred("colon_or_space"))

----------------------------------------------------------------------------
\* Functional utilities, as the value transforms handed to lift.

RECURSIVE mconcat(_)
\* ''.join of the items that are not None.
mconcat(xs) ==
    IF xs = <<>> THEN <<>>
    ELSE (IF Head(xs) = NoneValue THEN <<>> ELSE Head(xs).s) \o mconcat(Tail(xs))

first(xs) == xs[1]

\* constant(x): the function that ignores its argument.
constant(x) == [f |-> "constant", x |-> x]

\* fn(value) for the transforms the model hands to lift.
apply(fn, value) ==
    CASE fn.f = "len" -> IntVal(Len(IF value.t = "str" THEN value.s ELSE value.items))
      [] fn.f = "mconcat" -> Str(mconcat(value.items))
      [] fn.f = "first" -> first(value.items)
      [] fn.f = "constant" -> fn.x

----------------------------------------------------------------------------
\* Combinators

RECURSIVE call(_, _), any_of_loop(_, _, _), sequence_loop(_, _, _, _, _),
          strings_loop(_, _, _)

whole_fn(p, state) ==
    LET parsed == call(p, state)
    IN  IF parsed.tag = "raise" THEN parsed
        ELSE IF parsed.tag = "Parsing" /\ end_of_input(parsed.parse_state) # None
             THEN parsed
             ELSE None

option_fn(p, otherwise, state) ==
    LET parsed == call(p, state)
    IN  IF parsed.tag = "None" THEN Parsing(otherwise, state) ELSE parsed

\* skip_space.fn that delegates to the parser even when whitespace is
\* required and absent.
skip_space_fn_IgnoreFlag(p, fail_without_whitespace, state) ==
    LET parsed == whitespace(state)
    IN  IF parsed = None THEN call(p, state) ELSE call(p, parsed.parse_state)

skip_space_fn(p, fail_without_whitespace, state) ==
    LET parsed == whitespace(state)
    IN  IF parsed = None
        THEN IF fail_without_whitespace THEN None ELSE call(p, state)
        ELSE call(p, parsed.parse_state)

lift_fn(fn, p, state) ==
    LET parsed == call(p, state)
    IN  IF parsed.tag = "Parsing"
        THEN Parsing(apply(fn, parsed.value), parsed.parse_state)
        ELSE parsed

\* The statement "assert parsing.parse_state.pos > parse_state.pos" followed
\* by "return parsing".
any_of_return(parsed, state) ==
    IF parsed.parse_state.pos > state.pos THEN parsed ELSE Raise("AssertionError")

\* The for loop of any_of.fn from the i-th parser on.
any_of_loop(parsers, state, i) ==
    IF i > Len(parsers) THEN None
    ELSE LET parsed == call(parsers[i], state)
         IN  IF parsed.tag = "raise" THEN parsed
             ELSE IF parsed.tag = "Parsing" THEN any_of_return(parsed, state)
             ELSE any_of_loop(parsers, state, i + 1)

\* any_of.fn whose loop starts at the second parser.
any_of_fn_SkipFirst(parsers, state) == any_of_loop(parsers, state, 2)

any_of_fn(parsers, state) == any_of_loop(parsers, state, 1)

\* The statement "return Parsing(results, parsing.parse_state)" after the
\* loop of sequence.fn; parsed is the loop's last assignment to parsing.
sequence_return(res, parsed) ==
    IF parsed = Unbound THEN Raise("UnboundLocalError")
    ELSE Parsing(List(res), parsed.parse_state)

\* The for loop of sequence.fn from the i-th parser on.
sequence_loop(parsers, state, i, res, parsed) ==
    IF i > Len(parsers) THEN sequence_return(res, parsed)
    ELSE LET p == call(parsers[i], state)
         IN  IF p.tag = "raise" THEN p
             ELSE IF p.tag = "None" THEN None
             ELSE sequence_loop(parsers, p.parse_state, i + 1, Append(res, p.value), p)

sequence_fn(parsers, state) == sequence_loop(parsers, state, 1, <<>>, Unbound)

\* The for loop of strings.fn from the i-th string on.
strings_loop(args, state, i) ==
    IF i > Len(args) THEN None
    ELSE LET parsed == parse_string(state, args[i])
         IN  IF parsed # None THEN parsed ELSE strings_loop(args, state, i + 1)

strings_fn(args, state) == strings_loop(args, state, 1)

\* The Python call p(state) of a parser value.
call(p, state) ==
    CASE p.k = "string" -> parse_string(state, p.s)
      [] p.k = "char" -> char_fn(p.ch, state)
      [] p.k = "not_char" -> not_char_fn(p.ch, state)
      [] p.k = "take_while" -> take_while_fn(p.match_char_fn, p.allow_empty, state)
      [] p.k = "digits" -> digits(state)
      [] p.k = "whitespace" -> whitespace(state)
      [] p.k = "end_of_input" -> end_of_input(state)
      [] p.k = "whole" -> whole_fn(p.parser, state)
      [] p.k = "option" -> option_fn(p.parser, p.otherwise, state)
      [] p.k = "skip_space" -> skip_space_fn(p.parser, p.fail_without_whitespace, state)
      [] p.k = "lift" -> lift_fn(p.fn, p.parser, state)
      [] p.k = "any_of" -> any_of_fn(p.parsers, state)
      [] p.k = "sequence" -> sequence_fn(p.parsers, state)
      [] p.k = "strings" -> strings_fn(p.args, state)

----------------------------------------------------------------------------
\* many and many1

\* many(parser, sep_by): a str separator becomes string(sep_by); a parser or
\* None is kept as it is.
many(p, sep_by) ==
    [k |-> "many", parser |-> p,
     parse_separator |-> IF "t" \in DOMAIN sep_by /\ sep_by.t = "str"
                         THEN string(sep_by.s) ELSE sep_by]

\* "return Parsing(results, prior_parse_state)" with the current cursor in
\* the place of the prior one.
many_return_NoRollback(res, state, prior) == Parsing(List(res), state)

\* The return of many.fn when the parser fails.
many_return(res, state, prior) == Parsing(List(res), prior)

\* The return of many.fn after the break taken when the separator fails.
many_break(res, state) == Parsing(List(res), state)

\* results.insert(0, parsing.value) in the place of the append.
many_collect_Prepend(res, value) == <<value>> \o res

\* "results.append(parsing.value)"
many_collect(res, value) == Append(res, value)

\* The else branch without its assignment: prior_parse_state keeps its value.
many_prior_Stale(state, prior) == prior

\* "prior_parse_state = parse_state" in the branch without a separator.
many_prior(state, prior) == state

\* One iteration of the "while True" loop of many.fn, from the values of its
\* variables: the values after it, and where control goes.
many_iteration(p, sep, state, prior, res) ==
    LET same == [pc |-> "many_loop", parse_state |-> state,
                 prior_parse_state |-> prior, results |-> res, ret |-> None]
        parsed == call(p, state)
    IN  IF parsed.tag = "raise"
        THEN [same EXCEPT !.pc = "many_raised", !.ret = parsed]
        ELSE IF parsed.tag = "Parsing"
        THEN IF Len(res) >= MemLimit
             THEN [same EXCEPT !.pc = "many_raised", !.ret = Raise("MemoryError"),
                               !.parse_state = parsed.parse_state]
             ELSE LET state1 == parsed.parse_state
                      res1 == many_collect(res, parsed.value)
                  IN  IF sep # NoneValue
                      THEN LET separated == call(sep, state1)
                           IN  IF separated.tag = "raise"
                               THEN [same EXCEPT !.pc = "many_raised", !.ret = separated,
                                                 !.parse_state = state1, !.results = res1]
                               ELSE IF separated.tag = "None"
                               THEN [same EXCEPT !.pc = "many_ret",
                                                 !.ret = many_break(res1, state1),
                                                 !.parse_state = state1, !.results = res1]
                               ELSE [same EXCEPT !.prior_parse_state = state1,
                                                 !.parse_state = separated.parse_state,
                                                 !.results = res1]
                      ELSE [same EXCEPT !.parse_state = state1,
                                        !.prior_parse_state = many_prior(state1, prior),
                                        !.results = res1]
        ELSE [same EXCEPT !.pc = "many_ret", !.ret = many_return(res, state, prior)]

\* many1.fn that tests only "if parsing".
many1_fn_NoEmptyTest(parsed) == parsed

\* many1.fn after its call of many's parser returned parsed.
many1_fn(parsed) ==
    IF parsed.tag = "Parsing" /\ parsed.value.items # <<>> THEN parsed ELSE None

----------------------------------------------------------------------------
\* The inputs of the model

Alphabet == {"a", ",", " "}

RECURSIVE SeqsUpTo(_, _)
\* The sequences over S of length at most n.
SeqsUpTo(S, n) ==
    IF n = 0 THEN {<<>>}
    ELSE LET shorter == SeqsUpTo(S, n - 1)
         IN  shorter \cup {Append(s, x) : s \in shorter, x \in S}

\* The texts of test_parsing.py and of the scenarios, and texts with digits.
TestManyText == <<"a", "a", "a", "a", "a", "a">>
TestChompText == <<" ", "x", " ", "x", "x", "x", " ", "x">>
ScenarioB == <<"a", "a", "a", "b">>
ScenarioC == <<"a", ",", "a", ",", "a", "-", "b">>
ScenarioD == <<"c", "a", "r">>
Texts ==
    SeqsUpTo(Alphabet, MaxLen)
    \cup {TestManyText, TestChompText, ScenarioB, ScenarioC, ScenarioD,
          <<"1", "2", "a">>, <<"a", "1">>, <<"a", ":", "a">>}

\* Longest list handed to any_of and sequence.
MaxParsers == 2

Leaves ==
    {string(<<>>), string(<<"a">>), string(<<",">>), string(<<"a", ",">>),
     string(<<"x">>), char("a"), not_char("a"), Function("digits"),
     Function("whitespace"), Function("end_of_input"),
     take_while(Pred("isdigit"), FALSE), take_while(Pred("is_a"), FALSE),
     take_while(Pred("is_a"), TRUE), until(Pred("is_a")),
     parse_until_colon_or_whitespace, strings(<<<<"a", ",">>, <<"a">>>>)}

Wrapped ==
    {char("a"), string(<<"x">>), string(<<>>), Function("digits"),
     Function("end_of_input"), take_while(Pred("is_a"), TRUE)}

Branches ==
    {char("a"), string(<<"a", ",">>), option(char(","), NoneValue),
     Function("end_of_input"), any_of(<<Function("end_of_input")>>)}

\* The parsers the model calls that hold no many.
Parsers ==
    Leaves
    \cup {whole(p) : p \in Wrapped}
    \cup {option(p, NoneValue) : p \in Wrapped}
    \cup {skip_space(p, TRUE) : p \in Wrapped}
    \cup {chomp_space(p) : p \in Wrapped}
    \cup {lift([f |-> "len"], p) : p \in {string(<<"a">>), Function("digits")}}
    \cup {any_of(ps) : ps \in SeqsUpTo(Branches, MaxParsers)}
    \cup {sequence(ps) : ps \in SeqsUpTo(Branches, MaxParsers)}
    \cup {any_of(<<string(<<"c", "a", "t">>), string(<<"c", "a", "r">>)>>),
          whole(sequence(<<string(<<"a", ",">>), Function("end_of_input")>>)),
          lift([f |-> "mconcat"], sequence(<<char("a"), option(char(","), NoneValue)>>)),
          lift([f |-> "first"], sequence(<<char("a"), char(",")>>)),
          lift(constant(IntVal(0)), Function("whitespace")),
          skip_space(any_of(<<option(char("a"), NoneValue)>>), TRUE),
          option(sequence(<<>>), NoneValue)}

\* The parsers handed to many.
Repeated ==
    {char("a"), string(<<"a">>), not_char("x"), Function("digits"),
     string(<<>>), option(char("a"), NoneValue), take_while(Pred("is_a"), TRUE),
     chomp_space(string(<<"x">>)), chomp_space(char("a")),
     any_of(<<string(<<"a", ",">>), char("a")>>),
     any_of(<<option(char("a"), NoneValue)>>),
     sequence(<<char("a"), option(char(","), NoneValue)>>)}

\* The sep_by arguments handed to many: None, a str, a parser.
Separators ==
    {NoneValue, Str(<<",">>), Str(<<>>), Function("whitespace"),
     option(char(","), NoneValue), any_of(<<Function("end_of_input")>>)}

----------------------------------------------------------------------------
\* The state machine

\* No parser: the value of the variables of a call that has not been made.
NoParser == [k |-> "none"]

Init ==
    /\ text \in Texts
    /\ pc = "idle"
    /\ callee = NoParser
    /\ start = ParseState(text, 0)
    /\ ret = None
    /\ parser = NoParser
    /\ parse_separator = NoneValue
    /\ parse_state = ParseState(text, 0)
    /\ prior_parse_state = ParseState(text, 0)
    /\ results = <<>>
    /\ parsing = None
    /\ run = 0
    /\ first_ret = None

\* The caller calls the parser p at position pos of the text.
Call(p, pos) ==
    /\ pc = "idle"
    /\ callee' = p
    /\ start' = ParseState(text, pos)
    /\ ret' = call(p, ParseState(text, pos))
    /\ pc' = "call_ret"
    /\ UNCHANGED <<text, parser, parse_separator, parse_state, prior_parse_state,
                   results, parsing, run, first_ret>>

\* The caller builds many(p, sep_by) and calls it at position pos: many.fn
\* is entered and reaches its loop.
ManyCall(p, sep_by, pos) ==
    /\ pc = "idle"
    /\ callee' = many(p, sep_by)
    /\ parser' = many(p, sep_by).parser
    /\ parse_separator' = many(p, sep_by).parse_separator
    /\ start' = ParseState(text, pos)
    /\ parse_state' = ParseState(text, pos)
    /\ prior_parse_state' = ParseState(text, pos)
    /\ results' = <<>>
    /\ run' = 1
    /\ pc' = "many_loop"
    /\ UNCHANGED <<text, ret, parsing, first_ret>>

\* One iteration of the loop of many.fn.
ManyIteration ==
    /\ pc = "many_loop"
    /\ LET next == many_iteration(parser, parse_separator, parse_state,
                                  prior_parse_state, results)
       IN  /\ pc' = next.pc
           /\ parse_state' = next.parse_state
           /\ prior_parse_state' = next.prior_parse_state
           /\ results' = next.results
           /\ ret' = next.ret
    /\ UNCHANGED <<text, callee, start, parser, parse_separator, parsing, run,
                   first_ret>>

\* The caller calls the same many parser again at the cursor it returned.
ManyAgain ==
    /\ pc = "many_ret"
    /\ run = 1
    /\ first_ret' = ret
    /\ start' = ret.parse_state
    /\ parse_state' = ret.parse_state
    /\ prior_parse_state' = ret.parse_state
    /\ results' = <<>>
    /\ ret' = None
    /\ run' = 2
    /\ pc' = "many_loop"
    /\ UNCHANGED <<text, callee, parser, parse_separator, parsing>>

\* The many parser was called by many1.fn, which goes on with its result.
Many1Return ==
    /\ pc = "many_ret"
    /\ parsing' = ret
    /\ ret' = many1_fn(ret)
    /\ pc' = "many1_ret"
    /\ UNCHANGED <<text, callee, start, parser, parse_separator, parse_state,
                   prior_parse_state, results, run, first_ret>>

Next ==
    \/ \E p \in Parsers, pos \in 0..Len(text) : Call(p, pos)
    \/ \E p \in Repeated, sep_by \in Separators, pos \in 0..Len(text) :
          ManyCall(p, sep_by, pos)
    \/ ManyIteration
    \/ ManyAgain
    \/ Many1Return

Spec == Init /\ [][Next]_vars

----------------------------------------------------------------------------
\* Properties of many and many1

\* C1: every call of many (with or without a separator, for every parser,
\* also one that succeeds without consuming input) returns a Parsing whose
\* value is a list: it never returns None, and it does not end in an
\* exception of its own (an exception raised by the repeated parser or by the
\* separator is theirs, not many's; MemoryError is raised by many's own
\* results.append once the loop has run on without end).
C1_ManyAlwaysReturnsSuccess ==
    /\ pc = "many_ret" => ret.tag = "Parsing" /\ ret.value.t = "list"
    /\ pc = "many_raised" => ret.exc # "MemoryError"

RECURSIVE Separated(_, _, _, _, _)
\* values (not empty) are the values of p at state and then after each
\* success of sep, last is the cursor right after the element that gave the
\* last value, and there the separator fails or is followed by no element.
Separated(p, sep, state, values, last) ==
    LET element == call(p, state)
    IN  /\ element.tag = "Parsing"
        /\ element.value = Head(values)
        /\ LET separator == call(sep, element.parse_state)
           IN  IF Len(values) = 1
               THEN /\ last = element.parse_state
                    /\ \/ separator.tag = "None"
                       \/ /\ separator.tag = "Parsing"
                          /\ call(p, separator.parse_state).tag = "None"
               ELSE /\ separator.tag = "Parsing"
                    /\ Separated(p, sep, separator.parse_state, Tail(values), last)

\* C2: a many with a separator returns the cursor right after the last
\* element whose value is in the result (the start cursor when the result is
\* empty), whether the separator failed there or succeeded and was followed
\* by no element; the result holds the elements' values only.  On "a,a,a-b"
\* many(char('a'), sep_by=",") gives ['a','a','a'] at position 5.
C2_SeparatedCursor ==
    (pc = "many_ret" /\ parse_separator # NoneValue) =>
        /\ ret.tag = "Parsing"
        /\ IF ret.value.items = <<>>
           THEN call(parser, start).tag = "None" /\ ret.parse_state = start
           ELSE Separated(parser, parse_separator, start, ret.value.items,
                          ret.parse_state)
        /\ (text = ScenarioC /\ start.pos = 0 /\ callee = many(char("a"), Str(<<",">>)))
              => ret = Parsing(List(<<Str(<<"a">>), Str(<<"a">>), Str(<<"a">>)>>),
                               ParseState(ScenarioC, 5))

\* Scenario C has returned.
C2_Witness ==
    /\ pc = "many_ret" /\ run = 1
    /\ text = ScenarioC /\ start.pos = 0
    /\ callee = many(char("a"), Str(<<",">>))
    /\ Len(ret.value.items) = 3 /\ ret.parse_state.pos = 5

\* C3 as stated: calling the same many again at the cursor it returned gives
\* the empty list at that cursor, whatever separator the many was built with.
\* It is taken here for the parsers that consume input where they succeed at
\* that cursor, so that no element of the second call is an empty match.
C3_ExhaustionAnySeparator ==
    (/\ pc = "many_ret" /\ run = 2
     /\ call(parser, start).tag = "Parsing"
           => call(parser, start).parse_state.pos > start.pos)
    => ret = Parsing(List(<<>>), start)

\* C3, amended: calling a many built without a separator again at the cursor
\* it returned gives the empty list at that cursor.
C3_ExhaustionNoSeparator ==
    (pc = "many_ret" /\ run = 2 /\ parse_separator = NoneValue) =>
        ret = Parsing(List(<<>>), start)

\* A many without a separator that had collected elements was called again
\* and returned.
C3_Witness ==
    /\ pc = "many_ret" /\ run = 2 /\ parse_separator = NoneValue
    /\ Len(first_ret.value.items) >= 2
    /\ start = first_ret.parse_state

RECURSIVE Repeats(_, _, _, _)
\* values are the values of p applied again and again from state, each time
\* at the cursor the time before ended at, up to the first failure, which is
\* at the cursor last.
Repeats(p, state, values, last) ==
    LET element == call(p, state)
    IN  IF values = <<>>
        THEN element.tag = "None" /\ last = state
        ELSE /\ element.tag = "Parsing"
             /\ element.value = Head(values)
             /\ Repeats(p, element.parse_state, Tail(values), last)

\* C7: a many without a separator returns the values of the parser applied
\* repeatedly from the start cursor up to its first failure, and the cursor
\* where the last success ended (the start cursor when there is none);
\* many(string('a')) on six 'a's gives six values.
C7_RepeatsUntilFailure ==
    (pc = "many_ret" /\ parse_separator = NoneValue) =>
        /\ ret.tag = "Parsing"
        /\ Repeats(parser, start, ret.value.items, ret.parse_state)
        /\ (text = TestManyText /\ start.pos = 0 /\ parser = string(<<"a">>))
              => Len(ret.value.items) = 6

\* test_many has returned.
C7_Witness ==
    /\ pc = "many_ret" /\ run = 1 /\ parse_separator = NoneValue
    /\ text = TestManyText /\ start.pos = 0 /\ parser = string(<<"a">>)
    /\ Len(ret.value.items) = 6 /\ ret.parse_state.pos = 6

\* C9: many1 returns None exactly when its parser fails at the start cursor
\* (so not when many ends in an exception), and when the parser succeeds
\* there many1 returns what many returned.
C9_Many1 ==
    /\ pc = "many1_ret" =>
          /\ ret = None <=> call(parser, start) = None
          /\ call(parser, start).tag = "Parsing" => ret = parsing
    /\ pc = "many_raised" => call(parser, start) # None

\* many1 returned a list of two or more elements.
C9_Witness ==
    /\ pc = "many1_ret" /\ ret.tag = "Parsing"
    /\ Len(ret.value.items) >= 2 /\ ret = parsing

----------------------------------------------------------------------------
\* Properties of the parsers that hold no loop without end

\* p returns at state: a Parsing or None, no exception.
Returns(p, state) == call(p, state).tag # "raise"

\* The outcome of the lowest-indexed parser that succeeds at state, None
\* when there is none.
FirstSuccess(parsers, state) ==
    LET succeed == {i \in 1..Len(parsers) : call(parsers[i], state).tag = "Parsing"}
    IN  IF succeed = {} THEN None
        ELSE call(parsers[CHOOSE i \in succeed : \A j \in succeed : i <= j], state)

\* The outcome of the lowest-indexed parser that does not fail at state (it
\* succeeds or raises), None when every parser fails.
FirstAnswer(parsers, state) ==
    LET answer == {i \in 1..Len(parsers) : call(parsers[i], state) # None}
    IN  IF answer = {} THEN None
        ELSE call(parsers[CHOOSE i \in answer : \A j \in answer : i <= j], state)

\* C4 as stated: any_of returns the outcome of the lowest-indexed parser that
\* succeeds at the cursor, and None exactly when every parser fails there.
\* It is taken here for the lists whose parsers all return at the cursor.
C4_FirstSuccessAlways ==
    (/\ pc = "call_ret" /\ callee.k = "any_of"
     /\ \A i \in 1..Len(callee.parsers) : Returns(callee.parsers[i], start))
    => ret = FirstSuccess(callee.parsers, start)

\* C4, amended: any_of returns None exactly when every parser fails at the
\* cursor; otherwise the lowest-indexed parser that does not fail decides:
\* when it succeeds and ends strictly after the cursor any_of returns its
\* outcome, when it succeeds without consuming input any_of raises
\* AssertionError, and when it raises, so does any_of.
C4_FirstSuccessThatAdvances ==
    (pc = "call_ret" /\ callee.k = "any_of") =>
        LET won == FirstAnswer(callee.parsers, start)
        IN  /\ ret = None <=>
                  \A i \in 1..Len(callee.parsers) : call(callee.parsers[i], start) = None
            /\ won.tag = "Parsing" =>
                  ret = IF won.parse_state.pos > start.pos
                        THEN won ELSE Raise("AssertionError")
            /\ won.tag = "raise" => ret = won

\* Scenario D: the first parser failed and the second one's outcome came back.
C4_Witness ==
    /\ pc = "call_ret"
    /\ callee = any_of(<<string(<<"c", "a", "t">>), string(<<"c", "a", "r">>)>>)
    /\ text = ScenarioD /\ start.pos = 0
    /\ ret = Parsing(Str(ScenarioD), ParseState(ScenarioD, 3))

RECURSIVE Threaded(_, _, _, _)
\* The outcome the parsers from the i-th on give when each is applied at the
\* cursor the one before ended at: their values after those in values, at
\* the last one's end cursor, and None as soon as one does not succeed.
Threaded(parsers, state, i, values) ==
    IF i > Len(parsers) THEN Parsing(List(values), state)
    ELSE LET element == call(parsers[i], state)
         IN  IF element.tag = "Parsing"
             THEN Threaded(parsers, element.parse_state, i + 1,
                           Append(values, element.value))
             ELSE None

\* C5: sequence of n >= 0 parsers succeeds exactly when each parser succeeds
\* at the end cursor of the one before it (the first at the start cursor),
\* with the list of the n values at the last end cursor, and is None when
\* one of them fails.  It is taken here for the lists whose parsers return
\* at every cursor of the text.
C5_SequenceThreads ==
    (/\ pc = "call_ret" /\ callee.k = "sequence"
     /\ \A i \in 1..Len(callee.parsers), pos \in 0..Len(text) :
           Returns(callee.parsers[i], ParseState(text, pos)))
    => ret = Threaded(callee.parsers, start, 1, <<>>)

\* The primitives C6 names: literal, char, take_while without allow_empty,
\* digits and whitespace.
Primitive(p) ==
    \/ p.k \in {"string", "char", "digits", "whitespace"}
    \/ p.k = "take_while" /\ ~p.allow_empty

\* C6 as stated: a success of a primitive, literal(s) for every s among them,
\* ends strictly after the start position.
C6_ProgressAnyLiteral ==
    (pc = "call_ret" /\ Primitive(callee) /\ ret.tag = "Parsing") =>
        ret.parse_state.pos > start.pos

\* C6, amended: a success of literal(s) with s not empty, of char,
\* of take_while without allow_empty, of digits or of whitespace ends
\* strictly after the start position.
C6_ProgressNonEmptyLiteral ==
    (/\ pc = "call_ret" /\ Primitive(callee) /\ ret.tag = "Parsing"
     /\ callee.k = "string" => callee.s # <<>>)
    => ret.parse_state.pos > start.pos

\* A literal of two characters matched in the middle of the text.
C6_Witness ==
    /\ pc = "call_ret" /\ callee = string(<<"a", ",">>)
    /\ start.pos = 1 /\ ret.tag = "Parsing" /\ ret.parse_state.pos = 3

\* The cursor after the longest run of whitespace that starts at state.
AfterSpace(state) ==
    LET txt == state.text
        end == CHOOSE q \in state.pos..Len(txt) :
                   /\ \A i \in (state.pos + 1)..q : IsSpace(txt[i])
                   /\ q = Len(txt) \/ ~IsSpace(txt[q + 1])
    IN  ParseState(txt, end)

\* C8: chomp_space(P) returns what P returns at the cursor after the longest
\* run of whitespace at the start cursor; skip_space(P) that requires
\* whitespace returns None when there is none and otherwise what P returns
\* after it.  many(chomp_space(string('x'))) on ' x xxx x' gives five values.
C8_SkipSpace ==
    /\ (pc = "call_ret" /\ callee.k = "skip_space") =>
          ret = IF callee.fail_without_whitespace /\ AfterSpace(start) = start
                THEN None
                ELSE call(callee.parser, AfterSpace(start))
    /\ (/\ pc = "many_ret" /\ run = 1 /\ text = TestChompText /\ start.pos = 0
        /\ callee = many(chomp_space(string(<<"x">>)), NoneValue))
       => Len(ret.value.items) = 5

\* chomp_space skipped whitespace and its parser matched after it.
C8_Witness ==
    /\ pc = "call_ret" /\ callee = chomp_space(string(<<"x">>))
    /\ text = TestChompText /\ start.pos = 0
    /\ ret = Parsing(Str(<<"x">>), ParseState(TestChompText, 2))

RECURSIVE Produced(_, _), ProducedBySequence(_, _, _)
\* Every cursor made while p is called at state: those made inside the
\* parsers it calls, and the one it returns.
Produced(p, state) ==
    LET outcome == call(p, state)
        returned == IF outcome.tag = "Parsing" THEN {outcome.parse_state} ELSE {}
        inside ==
            CASE p.k \in {"whole", "option", "lift"} -> Produced(p.parser, state)
              [] p.k = "skip_space" ->
                    LET space == whitespace(state)
                    IN  IF space = None
                        THEN IF p.fail_without_whitespace THEN {}
                             ELSE Produced(p.parser, state)
                        ELSE {space.parse_state}
                             \cup Produced(p.parser, space.parse_state)
              [] p.k = "any_of" ->
                    UNION {Produced(p.parsers[i], state) :
                             i \in {j \in 1..Len(p.parsers) :
                                      \A h \in 1..(j - 1) :
                                         call(p.parsers[h], state) = None}}
              [] p.k = "sequence" -> ProducedBySequence(p.parsers, state, 1)
              [] OTHER -> {}
    IN  returned \cup inside

\* The cursors made by the parsers of a sequence from the i-th on.
ProducedBySequence(parsers, state, i) ==
    IF i > Len(parsers) THEN {}
    ELSE LET element == call(parsers[i], state)
         IN  Produced(parsers[i], state)
             \cup IF element.tag = "Parsing"
                  THEN ProducedBySequence(parsers, element.parse_state, i + 1)
                  ELSE {}

\* A cursor over the input text at a position from 0 to its length.
InText(cursor) ==
    cursor.text = text /\ 0 <= cursor.pos /\ cursor.pos <= Len(text)

\* C10: from a start cursor inside the text, every cursor a parser makes
\* (the ones threaded inside many, sequence, skip_space and whole too) is
\* over the same text at a position from 0 to the text's length.
C10_CursorsInText ==
    /\ InText(start) /\ InText(parse_state) /\ InText(prior_parse_state)
    /\ \A outcome \in {ret, parsing, first_ret} :
          outcome.tag = "Parsing" => InText(outcome.parse_state)
    /\ pc = "call_ret" => \A cursor \in Produced(callee, start) : InText(cursor)
    /\ pc = "many_loop" =>
          /\ \A cursor \in Produced(parser, parse_state) : InText(cursor)
          /\ parse_separator # NoneValue =>
                \A cursor \in Produced(parse_separator, prior_parse_state)
                                \cup Produced(parse_separator, parse_state) :
                   InText(cursor)

\* A sequence threaded its cursor through two parsers up to the end of a
\* text of three characters.
C10_Witness ==
    /\ pc = "call_ret" /\ callee = sequence(<<string(<<"a", ",">>), char("a")>>)
    /\ start.pos = 0 /\ Len(text) = 3
    /\ ret.tag = "Parsing" /\ ret.parse_state.pos = 3
    /\ Cardinality(Produced(callee, start)) = 2

====
